---- MODULE Spec2Model ----
(***************************************************************************)
(* Table-of-contents synchronisation of the PDF generator:                 *)
(*   src/src/generators/toc-utils.ts  (config, extraction, numbering)      *)
(*   src/src/generators/pdf/toc.ts    (matching, allocation, insertion)    *)
(*                                                                         *)
(* Optional JavaScript values (T | undefined, T | null) are modelled as    *)
(* sequences of length at most one: << >> is undefined/null, <<v>> is v.   *)
(* Strings are sequences of one-character strings.                         *)
(***************************************************************************)
EXTENDS Integers, Sequences, FiniteSets, TLC

(* ------------------------------ bounds --------------------------------- *)
MaxContent == 3
MaxDrawn == 2
NumContentPages == 1
MaxInsert == 2
MaxTocPages == 3
MaxTotalPages == 10
MaxEntries == 6
MaxExtract == 5
MaxText == 5
MaxSections == 3
MaxFiles == 2
MaxRenderEntries == 4

(* --------------------------- program constants ------------------------- *)
TOC_TITLE_FONT_SIZE == 18
TOC_ENTRY_LINE_HEIGHT == 20
TOC_TITLE_MARGIN_BOTTOM == 24
TOC_INDENT_PER_LEVEL == 20
DOT_LEADER_SPACING == 3
DOT_LEADER_CHAR == <<".">>
LeaderPadding == 8
NarrowGlyph == 3
WideGlyph == 6

DefaultTitle ==
  <<"T", "a", "b", "l", "e", " ", "o", "f", " ", "C", "o", "n", "t", "e", "n", "t", "s">>
DefaultMinLevel == 1
DefaultMaxLevel == 3
MaxHeadingLevel == 6

(* ------------------------------ helpers -------------------------------- *)
None == << >>
Some(v) == <<v>>

Max(a, b) == IF a >= b THEN a ELSE b
Min(a, b) == IF a <= b THEN a ELSE b

(* Math.floor(a / b) for b > 0 *)
Floor(a, b) == a \div b

(* Math.ceil(a / b) for b # 0 (JavaScript real division, then ceiling) *)
Ceil(a, b) ==
  IF b > 0 THEN -((-a) \div b) ELSE -(a \div (-b))

(* Array.prototype.splice(idx, 0, ...items) / insertion at a 0-based index *)
SpliceAt(s, idx, items) ==
  SubSeq(s, 1, idx) \o items \o SubSeq(s, idx + 1, Len(s))

RECURSIVE SeqsUpTo(_, _)
SeqsUpTo(S, n) ==
  IF n = 0 THEN {<< >>}
  ELSE LET prev == SeqsUpTo(S, n - 1)
       IN prev \cup {Append(s, x) : s \in {t \in prev : Len(t) = n - 1}, x \in S}

(* ------------------------- generateAnchorId ---------------------------- *)
UpperChars == {"A", "B"}
WordChars == {"a", "b", "1", "_"}
SpaceChars == {" ", "\t"}

toLowerCase(c) == IF c = "A" THEN "a" ELSE IF c = "B" THEN "b" ELSE c

RECURSIVE MapLower(_)
MapLower(s) == IF s = << >> THEN << >> ELSE <<toLowerCase(Head(s))>> \o MapLower(Tail(s))

(* .replace(/[^\w\s-]/g, '') *)
RECURSIVE RemoveSpecial(_)
RemoveSpecial(s) ==
  IF s = << >> THEN << >>
  ELSE IF Head(s) \in WordChars \cup UpperChars \cup SpaceChars \cup {"-"}
       THEN <<Head(s)>> \o RemoveSpecial(Tail(s))
       ELSE RemoveSpecial(Tail(s))

(* .replace(/\s+/g, '-') *)
RECURSIVE SpacesToHyphen(_)
SpacesToHyphen(s) ==
  IF s = << >> THEN << >>
  ELSE IF Head(s) \in SpaceChars
       THEN IF Len(s) > 1 /\ s[2] \in SpaceChars
            THEN SpacesToHyphen(Tail(s))
            ELSE <<"-">> \o SpacesToHyphen(Tail(s))
       ELSE <<Head(s)>> \o SpacesToHyphen(Tail(s))

(* .replace(/-+/g, '-') *)
RECURSIVE CollapseHyphens(_)
CollapseHyphens(s) ==
  IF s = << >> THEN << >>
  ELSE IF Head(s) = "-" /\ Len(s) > 1 /\ s[2] = "-"
       THEN CollapseHyphens(Tail(s))
       ELSE <<Head(s)>> \o CollapseHyphens(Tail(s))

(* variant: only a leading hyphen is trimmed *)
TrimHyphens_LeadingOnly(s) == IF s # << >> /\ Head(s) = "-" THEN Tail(s) ELSE s

(* .replace(/^-|-$/g, '') *)
TrimHyphens(s) ==
  LET a == IF s # << >> /\ Head(s) = "-" THEN Tail(s) ELSE s
  IN IF a # << >> /\ a[Len(a)] = "-" THEN SubSeq(a, 1, Len(a) - 1) ELSE a

(* variant: hyphen runs are collapsed before whitespace becomes hyphens *)
generateAnchorId_CollapseFirst(text) ==
  TrimHyphens(SpacesToHyphen(CollapseHyphens(RemoveSpecial(MapLower(text)))))

generateAnchorId(text) ==
  TrimHyphens(CollapseHyphens(SpacesToHyphen(RemoveSpecial(MapLower(text)))))

(* --------------------------- resolveTocConfig -------------------------- *)
(* variant: the `enabled === false` early return is missing *)
resolveTocConfig_NoDisable(toc) ==
  IF toc = None THEN None
  ELSE Some([enabled |-> toc[1].enabled # Some(FALSE),
             title |-> IF toc[1].title = None THEN DefaultTitle ELSE toc[1].title[1],
             minLevel |-> IF toc[1].minLevel = None THEN DefaultMinLevel ELSE toc[1].minLevel[1],
             maxLevel |-> IF toc[1].maxLevel = None THEN DefaultMaxLevel ELSE toc[1].maxLevel[1],
             numbered |-> IF toc[1].numbered = None THEN FALSE ELSE toc[1].numbered[1],
             showPageNumbers |-> toc[1].showPageNumbers # Some(FALSE)])

(* variant: the title always takes its default *)
ResolvedTitle_Default(toc) == DefaultTitle

(* toc.title ?? 'Table of Contents' *)
ResolvedTitle(toc) == IF toc.title = None THEN DefaultTitle ELSE toc.title[1]

resolveTocConfig(toc) ==
  IF toc = None THEN None
  ELSE IF toc[1].enabled = Some(FALSE) THEN None
  ELSE Some([enabled |-> toc[1].enabled # Some(FALSE),
             title |-> ResolvedTitle(toc[1]),
             minLevel |-> IF toc[1].minLevel = None THEN DefaultMinLevel ELSE toc[1].minLevel[1],
             maxLevel |-> IF toc[1].maxLevel = None THEN DefaultMaxLevel ELSE toc[1].maxLevel[1],
             numbered |-> IF toc[1].numbered = None THEN FALSE ELSE toc[1].numbered[1],
             showPageNumbers |-> toc[1].showPageNumbers # Some(FALSE)])

(* --------------------------- extractTocEntries ------------------------- *)
(* variant: only the lower bound of the level range is tested *)
OutOfRange_NoUpper(level, cfg) == level < cfg.minLevel

(* variant: the bounds of the level range are excluded *)
OutOfRange_Strict(level, cfg) == level <= cfg.minLevel \/ level >= cfg.maxLevel

(* heading.level < config.minLevel || heading.level > config.maxLevel *)
OutOfRange(level, cfg) == level < cfg.minLevel \/ level > cfg.maxLevel

RECURSIVE extractTocEntries(_, _)
extractTocEntries(c, cfg) ==
  IF c = << >> THEN << >>
  ELSE LET element == Head(c)
           rest == extractTocEntries(Tail(c), cfg)
       IN IF element.type # "heading" THEN rest
          ELSE IF OutOfRange(element.level, cfg) THEN rest
          ELSE <<[text |-> element.text,
                  level |-> element.level,
                  anchorId |-> generateAnchorId(element.text),
                  numbering |-> None,
                  pageNumber |-> None]>> \o rest

(* ----------------------------- assignNumbering ------------------------- *)
RECURSIVE SeqMin(_)
SeqMin(s) == IF Len(s) = 1 THEN s[1] ELSE Min(s[1], SeqMin(Tail(s)))

EntryLevels(es) == [k \in 1..Len(es) |-> es[k].level]

(* variant: the counters start at one *)
ZeroCounters_Ones == <<1, 1, 1, 1, 1, 1, 1>>

ZeroCounters == <<0, 0, 0, 0, 0, 0, 0>>

(* variant: the counter at the entry's depth is set to one, not incremented *)
BumpCounters_SetOne(counters, depth) ==
  [k \in 1..Len(counters) |->
     IF k = depth + 1 THEN 1
     ELSE IF k > depth + 1 THEN 0
     ELSE counters[k]]

(* variant: deeper counters are not reset *)
BumpCounters_NoReset(counters, depth) ==
  [k \in 1..Len(counters) |->
     IF k = depth + 1 THEN counters[k] + 1 ELSE counters[k]]

(* one iteration of the for-loop: counters are indexed by depth + 1 *)
BumpCounters(counters, depth) ==
  [k \in 1..Len(counters) |->
     IF k = depth + 1 THEN counters[k] + 1
     ELSE IF k > depth + 1 THEN 0
     ELSE counters[k]]

(* String(n) of a non-negative integer, as Array.prototype.join applies it *)
Digits == <<"0", "1", "2", "3", "4", "5", "6", "7", "8", "9">>

RECURSIVE NumToStr(_)
NumToStr(n) ==
  IF n < 10 THEN <<Digits[n + 1]>>
  ELSE NumToStr(n \div 10) \o <<Digits[(n % 10) + 1]>>

(* parts.join('.') *)
RECURSIVE JoinDots(_)
JoinDots(parts) ==
  IF Len(parts) = 0 THEN << >>
  ELSE IF Len(parts) = 1 THEN NumToStr(parts[1])
  ELSE NumToStr(parts[1]) \o <<".">> \o JoinDots(Tail(parts))

RECURSIVE NumberFrom(_, _, _)
NumberFrom(es, counters, minLevel) ==
  IF es = << >> THEN << >>
  ELSE LET depth == Head(es).level - minLevel
           next == BumpCounters(counters, depth)
       IN <<[Head(es) EXCEPT !.numbering = Some(JoinDots(SubSeq(next, 1, depth + 1)))]>>
          \o NumberFrom(Tail(es), next, minLevel)

(* variant: depth 0 is the default minimum level, not the minimum present *)
assignNumbering_FixedBase(es) ==
  IF Len(es) = 0 THEN es
  ELSE NumberFrom(es, ZeroCounters, DefaultMinLevel)

assignNumbering(es) ==
  IF Len(es) = 0 THEN es
  ELSE NumberFrom(es, ZeroCounters, SeqMin(EntryLevels(es)))

(* ------------------------------- state --------------------------------- *)
VARIABLES
  tocConfig,      \* raw TableOfContents | undefined
  content,        \* SchemaContentElement[] | undefined
  hasCoverPage,
  drawnElements,  \* ctx.drawnElements
  pageHeight,     \* ctx.pageSize.height
  pageWidth,      \* ctx.pageSize.width
  margins,        \* ctx.stylesheet.page.margins
  docPages,       \* ctx.doc page tree, in order
  ctxPages,       \* ctx.pages
  pc,             \* position inside insertTocPages
  config,         \* resolved configuration (null before/without resolution)
  entries,        \* TocEntry[]
  entryIdx,       \* 0-based position of the for-of loop over entries
  headingIdx,     \* search cursor of assignPageNumbersFromDrawnElements
  matched,        \* history: per processed entry, 1-based index of the matched
                  \* heading element, 0 when the inner loop found none
  entriesPerPage,
  tocPageCount,   \* [inf |-> BOOLEAN, n |-> Int]; inf is JavaScript Infinity
  insertIndex,
  i,              \* counter of the page insertion loop
  pageIdx,        \* counter of the render loop
  drawLog,        \* drawText calls made by renderTocContent, in order
  ret,            \* resolved value of the returned promise
  util,           \* one call of an exported utility: function, arguments, result
  pub,            \* one call of publish(): options, files, position, effects
  before          \* history: drawnElements and content when insertTocPages was called

vars == <<tocConfig, content, hasCoverPage, drawnElements, pageHeight, pageWidth, margins,
          docPages, ctxPages, pc, config, entries, entryIdx, headingIdx, matched,
          entriesPerPage, tocPageCount, insertIndex, i, pageIdx, drawLog, ret,
          util, pub, before>>

(* state of the other entry points, untouched by insertTocPages *)
others == <<util, pub, before>>

inputs == <<tocConfig, content, hasCoverPage, drawnElements, pageHeight, pageWidth,
            margins>>

(* ------------------------------- inputs -------------------------------- *)
TextA == <<"A", " ", "b">>
TextB == <<"-", "B", "!">>
Texts == {TextA, TextB}

Heading(l, t) == [type |-> "heading", level |-> l, text |-> t]
Paragraph(t) == [type |-> "paragraph", level |-> 0, text |-> t]

ContentElems == {Heading(1, TextA), Heading(2, TextB), Paragraph(TextA)}

Contents == {None} \cup {Some(c) : c \in SeqsUpTo(ContentElems, MaxContent)}

BlankToc ==
  [enabled |-> None, title |-> None, minLevel |-> None, maxLevel |-> None,
   numbered |-> None, showPageNumbers |-> None]

TocConfigs ==
  {None,
   Some([BlankToc EXCEPT !.enabled = Some(FALSE), !.numbered = Some(TRUE)]),
   Some(BlankToc),
   Some([BlankToc EXCEPT !.enabled = Some(TRUE), !.numbered = Some(TRUE),
                         !.minLevel = Some(2), !.maxLevel = Some(4),
                         !.showPageNumbers = Some(FALSE)]),
   Some([BlankToc EXCEPT !.minLevel = Some(2), !.maxLevel = Some(1)])}

PageHeights == {50, 75, 110}
PageWidths == {70}
MarginSets == {[top |-> 10, bottom |-> 10, left |-> 10, right |-> 10]}

(* pages of the rendered document before the TOC is inserted *)
NumPages(cover) == NumContentPages + (IF cover THEN 1 ELSE 0)
OrigPages(cover) ==
  [k \in 1..NumPages(cover) |->
     [kind |-> IF cover /\ k = 1 THEN "cover" ELSE "content", n |-> k]]

Drawn(ty, t, p) == [type |-> ty, content |-> t, page |-> p]

DrawnElems(cover) ==
  {Drawn("heading", t, p) : t \in Texts, p \in 1..NumPages(cover)}
    \cup {Drawn("title", TextA, 1), Drawn("paragraph", TextB, NumPages(cover))}

NoCall == [pc |-> "none"]

Init ==
  /\ tocConfig \in TocConfigs
  /\ content \in Contents
  /\ hasCoverPage \in BOOLEAN
  /\ drawnElements \in SeqsUpTo(DrawnElems(hasCoverPage), MaxDrawn)
  /\ before = [drawnElements |-> drawnElements, content |-> content]
  /\ pageHeight \in PageHeights
  /\ pageWidth \in PageWidths
  /\ margins \in MarginSets
  /\ docPages = OrigPages(hasCoverPage)
  /\ ctxPages = OrigPages(hasCoverPage)
  /\ pc = "start"
  /\ config = None
  /\ entries = << >>
  /\ entryIdx = 0
  /\ headingIdx = 0
  /\ matched = << >>
  /\ entriesPerPage = 0
  /\ tocPageCount = [inf |-> FALSE, n |-> 0]
  /\ insertIndex = 0
  /\ i = 0
  /\ pageIdx = 0
  /\ drawLog = << >>
  /\ ret = None
  /\ util = NoCall
  /\ pub = NoCall

(* --------------- assignPageNumbersFromDrawnElements -------------------- *)
headingElements ==
  SelectSeq(drawnElements, LAMBDA el : el.type = "heading" \/ el.type = "title")

(* variant: the last element at or after `from` with the text is taken *)
FindFrom_Last(hs, from, text) ==
  IF \E k \in (from + 1)..Len(hs) : hs[k].content = text
  THEN (CHOOSE k \in (from + 1)..Len(hs) :
          /\ hs[k].content = text
          /\ \A j \in (k + 1)..Len(hs) : hs[j].content # text) - 1
  ELSE -1

(* variant: the search starts at the first heading element for every entry *)
FindFrom_FromStart(hs, from, text) ==
  IF \E k \in 1..Len(hs) : hs[k].content = text
  THEN (CHOOSE k \in 1..Len(hs) :
          /\ hs[k].content = text
          /\ \A j \in 1..(k - 1) : hs[j].content # text) - 1
  ELSE -1

(* the inner for-loop: 0-based index of the first element at or after `from` *)
(* whose content equals `text`; -1 when the loop runs off the end            *)
RECURSIVE FindFrom(_, _, _)
FindFrom(hs, from, text) ==
  IF from >= Len(hs) THEN -1
  ELSE IF hs[from + 1].content = text THEN from
  ELSE FindFrom(hs, from + 1, text)

(* variant: the cover page is not subtracted *)
ContentPageNumber_Absolute(page, cover) == page

(* entry.pageNumber = hasCoverPage ? page - 1 : page *)
ContentPageNumber(page, cover) == IF cover THEN page - 1 ELSE page

(* variant: the cursor stays on the matched element *)
NextHeadingIdx_Stay(k) == k

(* headingIdx = i + 1 *)
NextHeadingIdx(k) == k + 1

(* variant: the cursor goes back to the first heading element *)
NextCursor_Reset(cur, k) == 0

(* the cursor after entry.pageNumber is set: headingIdx = i + 1 on a match,  *)
(* unchanged when the inner loop found nothing                               *)
NextCursor(cur, k) == IF k >= 0 THEN NextHeadingIdx(k) ELSE cur

(* variant: no fallback *)
NullishAssign_NoFallback(pn, v) == pn

(* entry.pageNumber ??= 1 *)
NullishAssign(pn, v) == IF pn = None THEN Some(v) ELSE pn

(* ----------------------------- page count ------------------------------ *)
ContentHeight(h, m) ==
  h - m.top - m.bottom - TOC_TITLE_FONT_SIZE - TOC_TITLE_MARGIN_BOTTOM

EntriesPerPage(h, m) == Floor(ContentHeight(h, m), TOC_ENTRY_LINE_HEIGHT)

(* variant: the quotient is rounded down *)
TocPageCount_Floor(n, epp) ==
  IF epp = 0 THEN [inf |-> TRUE, n |-> 0]
  ELSE IF epp < 0 THEN [inf |-> FALSE, n |-> 1]
  ELSE [inf |-> FALSE, n |-> Max(1, n \div epp)]

(* Math.max(1, Math.ceil(n / epp)); n / 0 is Infinity for n > 0 *)
TocPageCount(n, epp) ==
  IF epp = 0 THEN [inf |-> TRUE, n |-> 0]
  ELSE [inf |-> FALSE, n |-> Max(1, Ceil(n, epp))]

(* variant: always at the start of the document *)
InsertIndex_Front(cover) == 0

(* hasCoverPage ? 1 : 0 *)
InsertIndex(cover) == IF cover THEN 1 ELSE 0

(* ctx.doc.insertPage(index, size): a new blank page at a 0-based index *)
NewTocPage(k) == [kind |-> "toc", n |-> k]
InsertPageAt(pages, index, k) == SpliceAt(pages, index, <<NewTocPage(k)>>)

(* for (i...) insertedPages.push(ctx.doc.getPage(insertIndex + i)) *)
InsertedPages(pages, index, count) == [k \in 1..count |-> pages[index + k]]

(* variant: spliced at the front of ctx.pages *)
SplicePages_Front(pages, index, inserted) == SpliceAt(pages, 0, inserted)

(* ctx.pages.splice(insertIndex, 0, ...insertedPages) *)
SplicePages(pages, index, inserted) == SpliceAt(pages, index, inserted)

(* variant: the recorded pages are re-based by the inserted TOC pages *)
DrawnAfterInsert_Rebased(drawn, count) ==
  [k \in 1..Len(drawn) |-> [drawn[k] EXCEPT !.page = @ + count]]

(* lines 73-83 write ctx.doc and ctx.pages; ctx.drawnElements is only read, *)
(* at lines 101-113                                                         *)
DrawnAfterInsert(drawn, count) == drawn

(* ------------------------ adjustPageNumberOffset ----------------------- *)
(* variant: the cover page is not counted *)
adjustPageNumberOffset_NoCover(tocPages, cover, totalPages) ==
  [startPage |-> tocPages, contentPageCount |-> totalPages - tocPages]

(* variant: the content pages are counted from the TOC pages only *)
adjustPageNumberOffset_CountFromToc(tocPages, cover, totalPages) ==
  [startPage |-> IF cover THEN 1 + tocPages ELSE tocPages,
   contentPageCount |-> totalPages - tocPages]

adjustPageNumberOffset(tocPages, cover, totalPages) ==
  LET startPage == IF cover THEN 1 + tocPages ELSE tocPages
  IN [startPage |-> startPage, contentPageCount |-> totalPages - startPage]

(* ------------------------------ actions -------------------------------- *)
(* insertTocPages, lines 45-53: resolve, early returns, extract, number *)
Start ==
  /\ pc = "start"
  /\ LET cfg == resolveTocConfig(tocConfig)
     IN IF cfg = None \/ content = None \/ Len(content[1]) = 0
        THEN /\ config' = cfg
             /\ entries' = << >>
             /\ ret' = Some(0)
             /\ pc' = "done"
        ELSE LET es == extractTocEntries(content[1], cfg[1])
             IN /\ config' = cfg
                /\ IF Len(es) = 0
                   THEN /\ entries' = es
                        /\ ret' = Some(0)
                        /\ pc' = "done"
                   ELSE /\ entries' = IF cfg[1].numbered THEN assignNumbering(es) ELSE es
                        /\ ret' = ret
                        /\ pc' = "match"
  /\ UNCHANGED <<others, inputs, docPages, ctxPages, entryIdx, headingIdx, matched,
                 entriesPerPage, tocPageCount, insertIndex, i, pageIdx, drawLog>>

(* one iteration of the for-of loop over entries, lines 107-120 *)
MatchEntry ==
  /\ pc = "match"
  /\ entryIdx < Len(entries)
  /\ LET entry == entries[entryIdx + 1]
         k == FindFrom(headingElements, headingIdx, entry.text)
         pn == IF k >= 0
               THEN Some(ContentPageNumber(headingElements[k + 1].page, hasCoverPage))
               ELSE entry.pageNumber
     IN /\ entries' = [entries EXCEPT ![entryIdx + 1].pageNumber = NullishAssign(pn, 1)]
        /\ headingIdx' = NextCursor(headingIdx, k)
        /\ matched' = Append(matched, IF k >= 0 THEN k + 1 ELSE 0)
  /\ entryIdx' = entryIdx + 1
  /\ UNCHANGED <<others, inputs, docPages, ctxPages, pc, config, entriesPerPage,
                 tocPageCount, insertIndex, i, pageIdx, drawLog, ret>>

(* lines 58-70: page count and insertion index *)
Allocate ==
  /\ pc = "match"
  /\ entryIdx >= Len(entries)
  /\ entriesPerPage' = EntriesPerPage(pageHeight, margins)
  /\ tocPageCount' = TocPageCount(Len(entries), EntriesPerPage(pageHeight, margins))
  /\ insertIndex' = InsertIndex(hasCoverPage)
  /\ i' = 0
  /\ pc' = "insert"
  /\ UNCHANGED <<others, inputs, docPages, ctxPages, config, entries, entryIdx, headingIdx,
                 matched, pageIdx, drawLog, ret>>

(* one iteration of the insertion loop, lines 73-76; with an infinite page *)
(* count the loop never exits, the model stops following it at MaxInsert   *)
InsertPage ==
  /\ pc = "insert"
  /\ tocPageCount.inf \/ i < tocPageCount.n
  /\ tocPageCount.inf => i < MaxInsert
  /\ docPages' = InsertPageAt(docPages, insertIndex + i, i)
  /\ i' = i + 1
  /\ UNCHANGED <<others, inputs, ctxPages, pc, config, entries, entryIdx, headingIdx,
                 matched, entriesPerPage, tocPageCount, insertIndex, pageIdx,
                 drawLog, ret>>

(* lines 79-83: collect the inserted pages and splice them into ctx.pages *)
Splice ==
  /\ pc = "insert"
  /\ ~tocPageCount.inf
  /\ i >= tocPageCount.n
  /\ ctxPages' = SplicePages(ctxPages, insertIndex,
                             InsertedPages(docPages, insertIndex, tocPageCount.n))
  /\ drawnElements' = DrawnAfterInsert(drawnElements, tocPageCount.n)
  /\ pageIdx' = 0
  /\ pc' = "render"
  /\ UNCHANGED <<others, tocConfig, content, hasCoverPage, pageHeight, pageWidth, margins,
                 docPages, config, entries, entryIdx, headingIdx, matched,
                 entriesPerPage, tocPageCount, insertIndex, i, drawLog, ret>>

(* ---------------------------- renderTocContent ------------------------ *)
(* entryFont.widthOfTextAtSize(text, TOC_ENTRY_FONT_SIZE): the advance      *)
(* widths of the glyphs add up; narrow glyphs for '.' and ' '                *)
GlyphWidth(c) == IF c \in {".", " "} THEN NarrowGlyph ELSE WideGlyph

RECURSIVE widthOfTextAtSize(_)
widthOfTextAtSize(text) ==
  IF text = << >> THEN 0
  ELSE GlyphWidth(Head(text)) + widthOfTextAtSize(Tail(text))

(* config.numbered && entry.numbering ? `${numbering}  ${text}` : text *)
DisplayText(entry, cfg) ==
  IF cfg.numbered /\ entry.numbering # None /\ entry.numbering[1] # << >>
  THEN entry.numbering[1] \o <<" ", " ">> \o entry.text
  ELSE entry.text

(* variant: every page starts with the first entry *)
StartEntry_Zero(pIdx, epp) == 0

(* const startEntry = pageIdx * entriesPerPage *)
StartEntry(pIdx, epp) == pIdx * epp

(* const endEntry = Math.min(startEntry + entriesPerPage, entries.length) *)
EndEntry(startEntry, epp, n) == Min(startEntry + epp, n)

(* variant: the title is drawn on every TOC page *)
HasTitle_Always(pIdx) == TRUE

(* if (pageIdx === 0) *)
HasTitle(pIdx) == pIdx = 0

(* variant: the padding before the page number is added, not subtracted *)
DotsEndX_Overrun(pageNumX) == pageNumX + LeaderPadding

(* const dotsEndX = pageNumX - 8 *)
DotsEndX(pageNumX) == pageNumX - LeaderPadding

(* while (dotX + dotWidth < dotsEndX) *)
LeaderFits(dotX, dotWidth, dotsEndX) == dotX + dotWidth < dotsEndX

(* one page.drawText call; width is the measured width of an entry-font     *)
(* text, 0 for the title, which the code does not measure                    *)
Draw(page, kind, idx, text, x, y, width) ==
  [page |-> page, kind |-> kind, entry |-> idx, text |-> text, x |-> x, y |-> y,
   width |-> width]

(* the while loop, lines 205-215: one drawText call per leader glyph *)
RECURSIVE LeaderDraws(_, _, _, _, _, _)
LeaderDraws(page, idx, y, dotX, dotWidth, dotsEndX) ==
  IF LeaderFits(dotX, dotWidth, dotsEndX)
  THEN <<Draw(page, "dot", idx, DOT_LEADER_CHAR, dotX, y, dotWidth)>>
       \o LeaderDraws(page, idx, y, dotX + dotWidth + DOT_LEADER_SPACING,
                      dotWidth, dotsEndX)
  ELSE << >>

(* lines 163-216: the drawText calls for entry number idx (1-based) at height y *)
EntryDraws(page, idx, y) ==
  LET entry == entries[idx]
      cfg == config[1]
      contentWidth == pageWidth - margins.left - margins.right
      minLevel == SeqMin(EntryLevels(entries))
      indent == (entry.level - minLevel) * TOC_INDENT_PER_LEVEL
      x == margins.left + indent
      displayText == DisplayText(entry, cfg)
      textWidth == widthOfTextAtSize(displayText)
      pageNumText == NumToStr(entry.pageNumber[1])
      pageNumWidth == widthOfTextAtSize(pageNumText)
      pageNumX == margins.left + contentWidth - pageNumWidth
      dotsStartX == x + textWidth + LeaderPadding
      dotsEndX == DotsEndX(pageNumX)
      dotWidth == widthOfTextAtSize(DOT_LEADER_CHAR)
  IN <<Draw(page, "entry", idx, displayText, x, y, textWidth)>>
     \o (IF cfg.showPageNumbers /\ entry.pageNumber # None
         THEN <<Draw(page, "pageNum", idx, pageNumText, pageNumX, y, pageNumWidth)>>
              \o (IF dotsEndX > dotsStartX
                  THEN LeaderDraws(page, idx, y, dotsStartX, dotWidth, dotsEndX)
                  ELSE << >>)
         ELSE << >>)

(* the inner for-loop, lines 163-219: entries i..endEntry-1 (0-based) *)
RECURSIVE EntriesDraws(_, _, _, _)
EntriesDraws(page, idx, endEntry, y) ==
  IF idx >= endEntry THEN << >>
  ELSE EntryDraws(page, idx + 1, y)
       \o EntriesDraws(page, idx + 1, endEntry, y - TOC_ENTRY_LINE_HEIGHT)

(* one iteration of the page loop, lines 143-220 *)
PageDraws(pIdx) ==
  LET page == ctxPages[insertIndex + pIdx + 1]
      top == pageHeight - margins.top
      startEntry == StartEntry(pIdx, entriesPerPage)
      endEntry == EndEntry(startEntry, entriesPerPage, Len(entries))
  IN IF HasTitle(pIdx)
     THEN <<Draw(page, "title", 0, config[1].title, margins.left, top, 0)>>
          \o EntriesDraws(page, startEntry, endEntry,
                          top - (TOC_TITLE_FONT_SIZE + TOC_TITLE_MARGIN_BOTTOM))
     ELSE EntriesDraws(page, startEntry, endEntry, top)

RenderPage ==
  /\ pc = "render"
  /\ pageIdx < tocPageCount.n
  /\ drawLog' = drawLog \o PageDraws(pageIdx)
  /\ pageIdx' = pageIdx + 1
  /\ UNCHANGED <<others, inputs, docPages, ctxPages, pc, config, entries, entryIdx,
                 headingIdx, matched, entriesPerPage, tocPageCount, insertIndex,
                 i, ret>>

(* line 88: return tocPageCount *)
Return ==
  /\ pc = "render"
  /\ pageIdx >= tocPageCount.n
  /\ ret' = Some(tocPageCount.n)
  /\ pc' = "done"
  /\ UNCHANGED <<others, inputs, docPages, ctxPages, config, entries, entryIdx, headingIdx,
                 matched, entriesPerPage, tocPageCount, insertIndex, i, pageIdx,
                 drawLog>>

Next ==
  \/ Start
  \/ MatchEntry
  \/ Allocate
  \/ InsertPage
  \/ Splice
  \/ RenderPage
  \/ Return

Spec == Init /\ [][Next]_vars

(* ---------------------------- properties ------------------------------- *)
PreDoc == OrigPages(hasCoverPage)

RangeLo ==
  IF tocConfig = None \/ tocConfig[1].minLevel = None
  THEN DefaultMinLevel ELSE tocConfig[1].minLevel[1]
RangeHi ==
  IF tocConfig = None \/ tocConfig[1].maxLevel = None
  THEN DefaultMaxLevel ELSE tocConfig[1].maxLevel[1]

HasHeadingInRange(lo, hi) ==
  /\ content # None
  /\ \E k \in 1..Len(content[1]) :
       /\ content[1][k].type = "heading"
       /\ lo <= content[1][k].level
       /\ content[1][k].level <= hi

PagesUntouched == docPages = PreDoc /\ ctxPages = PreDoc

Finished == pc = "done"

(* 1-based index of the last heading element matched by entries 1..k, 0 if none *)
RECURSIVE LastMatch(_)
LastMatch(k) ==
  IF k = 0 THEN 0
  ELSE IF matched[k] # 0 THEN matched[k] ELSE LastMatch(k - 1)

TocPagesIn(pages) == Cardinality({k \in 1..Len(pages) : pages[k].kind = "toc"})

(* C1: when the content yields no TOC entry (content undefined or empty, or *)
(* no heading with minLevel <= level <= maxLevel, also for minLevel >       *)
(* maxLevel), insertTocPages inserts no page into the document or into      *)
(* ctx.pages and returns 0.                                                 *)
C1_NoEntryNoOp ==
  ~HasHeadingInRange(RangeLo, RangeHi) =>
    /\ PagesUntouched
    /\ pc \in {"start", "done"}
    /\ Finished => ret = Some(0)

C1_Witness ==
  /\ Finished
  /\ config # None
  /\ content # None
  /\ \E k \in 1..Len(content[1]) : content[1][k].type = "heading"
  /\ RangeLo > RangeHi
  /\ ret = Some(0)

(* C2: a TOC configuration with enabled = false behaves like an absent TOC  *)
(* configuration for the same content, context and hasCoverPage: in both    *)
(* cases the call returns 0 and the page sequences stay as they were.       *)
C2_DisabledLikeAbsent ==
  (tocConfig = None \/ tocConfig[1].enabled = Some(FALSE)) =>
    /\ PagesUntouched
    /\ pc \in {"start", "done"}
    /\ Finished => ret = Some(0) /\ entries = << >>

C2_Witness ==
  /\ Finished
  /\ tocConfig # None
  /\ tocConfig[1].enabled = Some(FALSE)
  /\ HasHeadingInRange(RangeLo, RangeHi)
  /\ ret = Some(0)

(* C3: the search cursor over the heading-or-title elements never moves     *)
(* back: every entry matches the first element after the previous match     *)
(* whose text equals its own, the cursor then stands just past that element, *)
(* so matches are strictly increasing and duplicate texts take successive    *)
(* elements.                                                                 *)
C3_MonotonicCursor ==
  /\ headingIdx = LastMatch(Len(matched))
  /\ \A k \in 1..Len(matched) :
       LET prev == LastMatch(k - 1)
           text == entries[k].text
       IN IF matched[k] # 0
          THEN /\ matched[k] > prev
               /\ headingElements[matched[k]].content = text
               /\ \A m \in (prev + 1)..(matched[k] - 1) :
                    headingElements[m].content # text
          ELSE \A m \in (prev + 1)..Len(headingElements) :
                    headingElements[m].content # text

C3_Witness ==
  /\ Finished
  /\ \E j, k \in 1..Len(matched) :
       /\ j < k
       /\ entries[j].text = entries[k].text
       /\ matched[j] # 0
       /\ matched[k] > matched[j]

(* C4: once matching is over every entry has a page number; an entry with   *)
(* no heading-or-title element of equal text after the cursor has page       *)
(* number 1, and the entries after it are still processed.                   *)
C4_FallbackPageOne ==
  /\ \A k \in 1..Len(matched) :
       /\ entries[k].pageNumber # None
       /\ (\A m \in (LastMatch(k - 1) + 1)..Len(headingElements) :
              headingElements[m].content # entries[k].text)
            => entries[k].pageNumber = Some(1)
  /\ pc \in {"insert", "render", "done"} => Len(matched) = Len(entries)

C4_Witness ==
  /\ Finished
  /\ \E j, k \in 1..Len(matched) :
       /\ j < k
       /\ matched[j] = 0
       /\ entries[j].pageNumber = Some(1)
       /\ matched[k] # 0

(* C5: a matched entry's page number is the matched element's absolute page *)
(* minus 1 with a cover page, and that page unchanged without one.           *)
C5_CoverOffset ==
  \A k \in 1..Len(matched) :
    matched[k] # 0 =>
      LET page == headingElements[matched[k]].page
      IN /\ hasCoverPage => entries[k].pageNumber = Some(page - 1)
         /\ ~hasCoverPage => entries[k].pageNumber = Some(page)

C5_Witness ==
  /\ Finished
  /\ hasCoverPage
  /\ \E k \in 1..Len(matched) :
       /\ matched[k] # 0
       /\ headingElements[matched[k]].page = 2
       /\ entries[k].pageNumber = Some(1)

(* C6: every assigned page number is at least 1 and at most the page count  *)
(* of the document after insertion, for drawn elements on 1-indexed absolute *)
(* pages of the document before insertion (a heading or title on absolute    *)
(* page 1 behind a cover page included).                                     *)
C6_PageNumberInRange ==
  \A k \in 1..Len(entries) :
    entries[k].pageNumber # None =>
      /\ entries[k].pageNumber[1] >= 1
      /\ Finished => entries[k].pageNumber[1] <= Len(docPages)

DefaultTocWithCover ==
  /\ Finished
  /\ hasCoverPage
  /\ tocConfig = Some(BlankToc)
  /\ ret # Some(0)

StartPage == adjustPageNumberOffset(ret[1], hasCoverPage, Len(docPages)).startPage

C8_PageCount ==
  (Finished /\ Len(entries) > 0) =>
    LET h == pageHeight - margins.top - margins.bottom - 18 - 24
        e == CHOOSE x \in -20..20 : x * 20 <= h /\ h < (x + 1) * 20
        n == Len(entries)
        p == TocPagesIn(docPages)
    IN /\ e # 0
       /\ p >= 1
       /\ e < 0 => p = 1
       /\ e > 0 => /\ p * e >= n
                   /\ p > 1 => (p - 1) * e < n

C8_Witness ==
  /\ Finished
  /\ Len(entries) = 3
  /\ entriesPerPage = 2
  /\ TocPagesIn(docPages) = 2

(* C9: inserting n TOC pages puts the new pages at the contiguous indices    *)
(* [k, k+n) with k = 1 behind a cover page and k = 0 otherwise, grows the    *)
(* page sequence by exactly n, leaves a cover page at index 0, keeps the     *)
(* earlier pages in their order (those at index >= k move by n), and n is    *)
(* the returned value.                                                       *)
InsertedBlock(pages, k, n) ==
  /\ Len(pages) = Len(PreDoc) + n
  /\ \A j \in 1..k : pages[j] = PreDoc[j]
  /\ \A j \in 1..n : pages[k + j] = NewTocPage(j - 1)
  /\ \A j \in (k + 1)..Len(PreDoc) : pages[j + n] = PreDoc[j]
  /\ hasCoverPage => pages[1].kind = "cover"

C9_InsertedBlock ==
  (Finished /\ ret # Some(0)) =>
    /\ InsertedBlock(docPages, IF hasCoverPage THEN 1 ELSE 0, ret[1])
    /\ Len(ctxPages) = Len(PreDoc) + ret[1]
    /\ TocPagesIn(docPages) = ret[1]

C9_Witness ==
  /\ Finished
  /\ hasCoverPage
  /\ ret = Some(2)
  /\ docPages[1].kind = "cover"
  /\ docPages[2].kind = "toc"
  /\ docPages[3].kind = "toc"
  /\ docPages[4] = PreDoc[2]

(* C10: ctx.pages mirrors the document before the call, and it mirrors the   *)
(* enlarged document at every index once the inserted pages are spliced in.  *)
C10_PagesMirrorDoc ==
  pc \in {"start", "match", "render", "done"} =>
    /\ Len(ctxPages) = Len(docPages)
    /\ \A idx \in 1..Len(docPages) : ctxPages[idx] = docPages[idx]

C10_Witness ==
  /\ Finished
  /\ ~hasCoverPage
  /\ Len(ctxPages) = Len(PreDoc) + 2
  /\ ctxPages[2] = NewTocPage(1)
  /\ ctxPages[3] = PreDoc[1]

(* ===================== the exported utilities, one call ================= *)
(* util = [pc, fn, args, res]: a call of one exported function with         *)
(* arguments drawn from bounded sets; the action of the function returns.   *)
tocVars == <<tocConfig, content, hasCoverPage, drawnElements, pageHeight, pageWidth,
             margins,
             docPages, ctxPages, pc, config, entries, entryIdx, headingIdx, matched,
             entriesPerPage, tocPageCount, insertIndex, i, pageIdx, drawLog, ret,
             before>>

(* insertTocPages is not running *)
TocIdle ==
  /\ tocConfig = None
  /\ content = None
  /\ hasCoverPage = FALSE
  /\ drawnElements = << >>
  /\ before = [drawnElements |-> << >>, content |-> None]
  /\ pageHeight = 0
  /\ pageWidth = 0
  /\ margins \in MarginSets
  /\ docPages = << >>
  /\ ctxPages = << >>
  /\ pc = "none"
  /\ config = None
  /\ entries = << >>
  /\ entryIdx = 0
  /\ headingIdx = 0
  /\ matched = << >>
  /\ entriesPerPage = 0
  /\ tocPageCount = [inf |-> FALSE, n |-> 0]
  /\ insertIndex = 0
  /\ i = 0
  /\ pageIdx = 0
  /\ drawLog = << >>
  /\ ret = None

Call(fn, args) == [pc |-> "call", fn |-> fn, args |-> args]
Returned(call, res) == [pc |-> "done", fn |-> call.fn, args |-> call.args, res |-> res]

Calling(fn) == util.pc = "call" /\ util.fn = fn
Done(fn) == util.pc = "done" /\ util.fn = fn

AdjustCalls ==
  {Call("adjustPageNumberOffset", <<t, c, n>>) :
     t \in 0..MaxTocPages, c \in BOOLEAN, n \in 0..MaxTotalPages}

CallAdjustPageNumberOffset ==
  /\ Calling("adjustPageNumberOffset")
  /\ util' = Returned(util, adjustPageNumberOffset(util.args[1], util.args[2], util.args[3]))
  /\ UNCHANGED <<tocVars, pub>>

(* a TocEntry as extractTocEntries creates it *)
NewEntry(t, l) ==
  [text |-> t, level |-> l, anchorId |-> generateAnchorId(t),
   numbering |-> None, pageNumber |-> None]

LevelEntries(levels) == [k \in 1..Len(levels) |-> NewEntry(TextA, levels[k])]

(* the three top levels and the deepest one: depths 0..5, with gaps *)
NumberLevels == {1, 2, 3, MaxHeadingLevel}

(* calls with at most n entries *)
NumberingCalls(n) ==
  {Call("assignNumbering", <<LevelEntries(ls)>>) : ls \in SeqsUpTo(NumberLevels, n)}

CallAssignNumbering ==
  /\ Calling("assignNumbering")
  /\ util' = Returned(util, assignNumbering(util.args[1]))
  /\ UNCHANGED <<tocVars, pub>>

ExtractElems ==
  {Heading(1, TextA), Heading(2, TextB), Heading(3, TextA), Heading(4, TextB),
   Paragraph(TextB)}

(* resolved configurations: the defaults, [2,3], [4,6] and the empty [3,2] *)
ExtractRanges == {<<1, 3>>, <<2, 3>>, <<4, 6>>, <<3, 2>>}

ResolvedWith(range) ==
  resolveTocConfig(Some([BlankToc EXCEPT !.minLevel = Some(range[1]),
                                         !.maxLevel = Some(range[2])]))[1]

(* calls with at most n content elements *)
ExtractCalls(n) ==
  {Call("extractTocEntries", <<c, ResolvedWith(r)>>) :
     c \in SeqsUpTo(ExtractElems, n), r \in ExtractRanges}

CallExtractTocEntries ==
  /\ Calling("extractTocEntries")
  /\ util' = Returned(util, extractTocEntries(util.args[1], util.args[2]))
  /\ UNCHANGED <<tocVars, pub>>

OptBool == {None, Some(TRUE), Some(FALSE)}

RawTocs ==
  [enabled : OptBool, title : {None, Some(TextA)}, minLevel : {None, Some(2)},
   maxLevel : {None, Some(4)}, numbered : OptBool, showPageNumbers : OptBool]

ResolveCalls == {Call("resolveTocConfig", <<toc>>) : toc \in {None} \cup {Some(t) : t \in RawTocs}}

CallResolveTocConfig ==
  /\ Calling("resolveTocConfig")
  /\ util' = Returned(util, resolveTocConfig(util.args[1]))
  /\ UNCHANGED <<tocVars, pub>>

(* an upper-case and a lower-case letter, both kinds of whitespace, a hyphen, *)
(* a special character, an underscore and a digit                            *)
AnchorChars == {"A", "b", " ", "\t", "-", "!", "_", "1"}

(* calls with a text of at most n characters *)
AnchorCalls(n) == {Call("generateAnchorId", <<t>>) : t \in SeqsUpTo(AnchorChars, n)}

CallGenerateAnchorId ==
  /\ Calling("generateAnchorId")
  /\ util' = Returned(util, generateAnchorId(util.args[1]))
  /\ UNCHANGED <<tocVars, pub>>

UtilInit ==
  /\ \/ util \in AdjustCalls
     \/ util \in NumberingCalls(MaxEntries)
     \/ util \in ExtractCalls(MaxExtract)
     \/ util \in ResolveCalls
     \/ util \in AnchorCalls(MaxText)
  /\ pub = NoCall
  /\ TocIdle

UtilNext ==
  \/ CallAdjustPageNumberOffset
  \/ CallAssignNumbering
  \/ CallExtractTocEntries
  \/ CallResolveTocConfig
  \/ CallGenerateAnchorId

SpecUtil == UtilInit /\ [][UtilNext]_vars

(* C11: adjustPageNumberOffset(tocPageCount, hasCoverPage, totalPages)      *)
(* returns startPage = tocPageCount + (1 if hasCoverPage else 0) and         *)
(* contentPageCount = totalPages - startPage for all inputs, so that         *)
(* startPage + contentPageCount = totalPages; (2, true, 10) gives 3 and 7.   *)
C11_Offset ==
  Done("adjustPageNumberOffset") =>
    LET t == util.args[1]
        c == util.args[2]
        n == util.args[3]
    IN /\ c => util.res.startPage = t + 1
       /\ ~c => util.res.startPage = t
       /\ util.res.startPage + util.res.contentPageCount = n
       /\ util.args = <<2, TRUE, 10>> => util.res = [startPage |-> 3, contentPageCount |-> 7]

C11_Witness ==
  /\ Done("adjustPageNumberOffset")
  /\ util.args = <<2, TRUE, 10>>
  /\ util.res.startPage = 3
  /\ util.res.contentPageCount = 7

(* ----- numbering, read back from the returned entries ----- *)
Levels(es) == [k \in 1..Len(es) |-> es[k].level]
Numberings(es) == [k \in 1..Len(es) |-> es[k].numbering[1]]

(* the smallest level among the entries *)
BaseLevel(es) ==
  CHOOSE l \in 1..MaxHeadingLevel :
    /\ \E k \in 1..Len(es) : es[k].level = l
    /\ \A k \in 1..Len(es) : es[k].level >= l

DepthOf(es, k) == es[k].level - BaseLevel(es)

(* entries at depth d up to entry k since the last entry shallower than d *)
CountSince(es, k, d) ==
  Cardinality({j \in 1..k :
                 /\ DepthOf(es, j) = d
                 /\ \A m \in (j + 1)..k : DepthOf(es, m) >= d})

ExpectedParts(es, k) == [d \in 1..(DepthOf(es, k) + 1) |-> CountSince(es, k, d - 1)]

(* the integers of a dot-joined numbering string *)
RECURSIVE ParseParts(_, _, _)
ParseParts(str, acc, cur) ==
  IF str = << >> THEN Append(acc, cur)
  ELSE IF Head(str) = "." THEN ParseParts(Tail(str), Append(acc, cur), 0)
  ELSE ParseParts(Tail(str), acc,
         cur * 10 + (CHOOSE d \in 0..9 : Digits[d + 1] = Head(str)))

PartsOf(es, k) == ParseParts(es[k].numbering[1], << >>, 0)

(* C12: assignNumbering takes the minimum level present (not the configured *)
(* minLevel) as depth 0 and gives every entry, in document order, the        *)
(* dot-joined counters of depths 0..(level - minimum level), the counter at  *)
(* the entry's depth just incremented and the deeper ones reset; levels      *)
(* [1,2,2,3,1,2] give 1, 1.1, 1.2, 1.2.1, 2, 2.1 and [2,3] give 1, 1.1.      *)
C12_Numbering ==
  Done("assignNumbering") =>
    LET es == util.res
    IN /\ Len(es) = Len(util.args[1])
       /\ \A k \in 1..Len(es) :
            /\ es[k].level = util.args[1][k].level
            /\ es[k].text = util.args[1][k].text
            /\ es[k].numbering = Some(JoinDots(ExpectedParts(es, k)))
       /\ Levels(es) = <<1, 2, 2, 3, 1, 2>> =>
            Numberings(es) = << <<"1">>, <<"1", ".", "1">>, <<"1", ".", "2">>,
                                <<"1", ".", "2", ".", "1">>, <<"2">>,
                                <<"2", ".", "1">> >>
       /\ Levels(es) = <<2, 3>> => Numberings(es) = << <<"1">>, <<"1", ".", "1">> >>

C12_Witness ==
  /\ Done("assignNumbering")
  /\ Levels(util.res) = <<2, 3, 3, 2>>
  /\ Numberings(util.res) =
       << <<"1">>, <<"1", ".", "1">>, <<"1", ".", "2">>, <<"2">> >>

(* C13: of two successive entries at one depth with no shallower entry      *)
(* between them the later has the same prefix and a last component one       *)
(* greater; the first entry at depth d after an entry shallower than d has   *)
(* last component 1; [1,2,3,1,2] gives 1, 1.1, 1.1.1, 2, 2.1.                *)
C13_SiblingsAndRestart ==
  Done("assignNumbering") =>
    LET es == util.res
    IN /\ \A j, k \in 1..Len(es) :
            (/\ j < k
             /\ DepthOf(es, j) = DepthOf(es, k)
             /\ \A m \in (j + 1)..(k - 1) : DepthOf(es, m) > DepthOf(es, k))
            => PartsOf(es, k) =
                 [PartsOf(es, j) EXCEPT ![DepthOf(es, k) + 1] = @ + 1]
       /\ \A j, k \in 1..Len(es) :
            (/\ j < k
             /\ DepthOf(es, j) < DepthOf(es, k)
             /\ \A m \in (j + 1)..(k - 1) : DepthOf(es, m) # DepthOf(es, k))
            => PartsOf(es, k)[Len(PartsOf(es, k))] = 1
       /\ Levels(es) = <<1, 2, 3, 1, 2>> =>
            Numberings(es) = << <<"1">>, <<"1", ".", "1">>,
                                <<"1", ".", "1", ".", "1">>, <<"2">>,
                                <<"2", ".", "1">> >>

C13_Witness ==
  /\ Done("assignNumbering")
  /\ Levels(util.res) = <<1, 2, 3, 1, 2>>
  /\ PartsOf(util.res, 5) = <<2, 1>>
  /\ PartsOf(util.res, 4) = <<2>>

(* ----- extraction ----- *)
(* positions of the content elements that are headings inside the range *)
Selected(c, cfg) ==
  {p \in 1..Len(c) :
     /\ c[p].type = "heading"
     /\ cfg.minLevel <= c[p].level
     /\ c[p].level <= cfg.maxLevel}

(* the k-th selected position, in content order *)
SelectedAt(c, cfg, k) ==
  CHOOSE p \in Selected(c, cfg) :
    Cardinality({q \in Selected(c, cfg) : q <= p}) = k

(* C14: extractTocEntries returns exactly one entry per content element     *)
(* that is a heading with minLevel <= level <= maxLevel, in content order,   *)
(* text and level copied; nothing else produces an entry, so every returned  *)
(* level lies in the range; levels {1,2,3,4,1} under [2,3] give levels 2, 3. *)
C14_ExactFilter ==
  Done("extractTocEntries") =>
    LET c == util.args[1]
        cfg == util.args[2]
        es == util.res
    IN /\ Len(es) = Cardinality(Selected(c, cfg))
       /\ \A k \in 1..Len(es) :
            /\ es[k].text = c[SelectedAt(c, cfg, k)].text
            /\ es[k].level = c[SelectedAt(c, cfg, k)].level
            /\ cfg.minLevel <= es[k].level
            /\ es[k].level <= cfg.maxLevel
       /\ ([k \in 1..Len(c) |-> c[k].level] = <<1, 2, 3, 4, 1>>
           /\ cfg.minLevel = 2 /\ cfg.maxLevel = 3)
          => Levels(es) = <<2, 3>>

C14_Witness ==
  /\ Done("extractTocEntries")
  /\ util.args[1] = <<Heading(1, TextA), Heading(2, TextB), Paragraph(TextB),
                      Heading(4, TextB), Heading(3, TextA)>>
  /\ util.args[2].minLevel = 2 /\ util.args[2].maxLevel = 3
  /\ Levels(util.res) = <<2, 3>>
  /\ util.res[1].text = TextB /\ util.res[2].text = TextA

(* C15: resolveTocConfig returns null exactly when the raw configuration is *)
(* absent or has enabled === false; otherwise the result has enabled = true, *)
(* keeps every supplied field and gives every missing one its default:       *)
(* title 'Table of Contents', minLevel 1, maxLevel 3, numbered false,        *)
(* showPageNumbers true.                                                     *)
C15_Resolve ==
  Done("resolveTocConfig") =>
    LET raw == util.args[1]
        res == util.res
    IN /\ res = None <=> (raw = None \/ raw[1].enabled = Some(FALSE))
       /\ res # None =>
            /\ res[1].enabled = TRUE
            /\ res[1].title = IF raw[1].title = None
                 THEN <<"T", "a", "b", "l", "e", " ", "o", "f", " ",
                        "C", "o", "n", "t", "e", "n", "t", "s">>
                 ELSE raw[1].title[1]
            /\ res[1].minLevel = IF raw[1].minLevel = None THEN 1 ELSE raw[1].minLevel[1]
            /\ res[1].maxLevel = IF raw[1].maxLevel = None THEN 3 ELSE raw[1].maxLevel[1]
            /\ res[1].numbered = IF raw[1].numbered = None THEN FALSE ELSE raw[1].numbered[1]
            /\ res[1].showPageNumbers =
                 IF raw[1].showPageNumbers = None THEN TRUE ELSE raw[1].showPageNumbers[1]

C15_Witness ==
  /\ Done("resolveTocConfig")
  /\ util.args[1] # None
  /\ util.args[1][1].enabled = None
  /\ util.args[1][1].title = Some(TextA)
  /\ util.args[1][1].maxLevel = None
  /\ util.args[1][1].showPageNumbers = Some(FALSE)
  /\ util.res # None
  /\ util.res[1].enabled /\ util.res[1].title = TextA /\ util.res[1].maxLevel = 3
  /\ ~util.res[1].showPageNumbers

(* ----- anchor ids ----- *)
(* C16: generateAnchorId is idempotent and deterministic: applying it to    *)
(* its own result gives that result again, and the result is a function of   *)
(* the text alone.                                                           *)
C16_Idempotent ==
  Done("generateAnchorId") =>
    /\ generateAnchorId(util.res) = util.res
    /\ util.res = generateAnchorId(util.args[1])

C16_Witness ==
  /\ Done("generateAnchorId")
  /\ util.args[1] = <<"A", " ", "-", "b">>
  /\ util.res = <<"a", "-", "b">>
  /\ generateAnchorId(util.res) = util.res

(* C17: the result of generateAnchorId holds only lower-case word           *)
(* characters and hyphens, no whitespace, no two adjacent hyphens, and       *)
(* neither starts nor ends with a hyphen; it may be empty.                   *)
C17_SlugShape ==
  Done("generateAnchorId") =>
    LET r == util.res
    IN /\ \A k \in 1..Len(r) : r[k] \in {"a", "b", "1", "_", "-"}
       /\ \A k \in 1..Len(r) : r[k] \notin {" ", "\t"}
       /\ \A k \in 1..(Len(r) - 1) : ~(r[k] = "-" /\ r[k + 1] = "-")
       /\ r # << >> => (r[1] # "-" /\ r[Len(r)] # "-")

C17_Witness ==
  /\ Done("generateAnchorId")
  /\ util.args[1] = <<"-", "\t", "A", "!">>
  /\ util.res = <<"a">>

(* ----- frame of insertTocPages ----- *)
(* C18: insertTocPages never changes the drawn-element record or the        *)
(* content sequence: at every point of the call both are what they were at   *)
(* its start; no DrawnElement is added, removed or altered (its page is not  *)
(* re-based by the inserted TOC pages) and no content element changes.       *)
C18_InputsKept ==
  /\ drawnElements = before.drawnElements
  /\ content = before.content

C18_Witness ==
  /\ Finished
  /\ ret = Some(2)
  /\ TocPagesIn(ctxPages) = 2
  /\ Len(drawnElements) = 2
  /\ \E k \in 1..Len(matched) :
       /\ matched[k] # 0
       /\ headingElements[matched[k]].page = 1

(* ============ documents whose headings are drawn once, in order ========= *)
(* every section starts a page: the k-th heading is drawn on the k-th       *)
(* content page                                                             *)
SectionHeadings == {Heading(l, t) : l \in {1, 4}, t \in Texts}

SectionPages(cover, n) ==
  (IF cover THEN <<[kind |-> "cover", n |-> 0]>> ELSE << >>)
    \o [k \in 1..n |-> [kind |-> "content", n |-> k]]

DrawnInOrder(c, cover) ==
  [k \in 1..Len(c) |-> Drawn("heading", c[k].text, k + (IF cover THEN 1 ELSE 0))]

OrderedConfigs == {Some(BlankToc), Some([BlankToc EXCEPT !.maxLevel = Some(4)])}

OrderedInit ==
  /\ tocConfig \in OrderedConfigs
  /\ content \in {Some(c) : c \in SeqsUpTo(SectionHeadings, MaxSections)}
  /\ hasCoverPage \in BOOLEAN
  /\ drawnElements = DrawnInOrder(content[1], hasCoverPage)
  /\ before = [drawnElements |-> drawnElements, content |-> content]
  /\ pageHeight \in PageHeights
  /\ pageWidth \in PageWidths
  /\ margins \in MarginSets
  /\ docPages = SectionPages(hasCoverPage, Len(content[1]))
  /\ ctxPages = SectionPages(hasCoverPage, Len(content[1]))
  /\ pc = "start"
  /\ config = None
  /\ entries = << >>
  /\ entryIdx = 0
  /\ headingIdx = 0
  /\ matched = << >>
  /\ entriesPerPage = 0
  /\ tocPageCount = [inf |-> FALSE, n |-> 0]
  /\ insertIndex = 0
  /\ i = 0
  /\ pageIdx = 0
  /\ drawLog = << >>
  /\ ret = None
  /\ util = NoCall
  /\ pub = NoCall

SpecOrdered == OrderedInit /\ [][Next]_vars

(* the drawn heading that belongs to entry j: the j-th heading in range *)
OwnHeading(j) == SelectedAt(content[1], config[1], j)

(* the page number entry j would show if it were matched to its own heading *)
OwnPageNumber(j) == drawnElements[OwnHeading(j)].page - (IF hasCoverPage THEN 1 ELSE 0)

(* C19: there is a document, every heading drawn once and in order, two     *)
(* headings of one level sharing a text, in which a TOC entry is given the   *)
(* page of a drawn heading other than its own. In such documents an entry is *)
(* always matched, to a heading of its text at or before its own, and to its *)
(* own whenever every drawn heading is a TOC entry.                          *)
C19_MatchAtOrBeforeOwn ==
  \A j \in 1..Len(matched) :
    /\ matched[j] # 0
    /\ matched[j] <= OwnHeading(j)
    /\ headingElements[matched[j]].content = entries[j].text
    /\ Len(entries) = Len(headingElements) => matched[j] = OwnHeading(j)

C19_Witness ==
  /\ Finished
  /\ \E a, b \in 1..Len(content[1]) :
       /\ a < b
       /\ content[1][a].level = content[1][b].level
       /\ content[1][a].text = content[1][b].text
       /\ \E j \in 1..(Len(entries) - 1) :
            /\ OwnHeading(j) = a /\ OwnHeading(j + 1) = b
            /\ matched[j] # a /\ matched[j + 1] # b
            /\ entries[j].pageNumber # Some(OwnPageNumber(j))
            /\ entries[j + 1].pageNumber # Some(OwnPageNumber(j + 1))

(* ================================ publish =============================== *)
(* pub = [pc, options, files, indexFile, result, calls]: one call of        *)
(* publish; files is generatedFiles.length, calls the collaborators invoked  *)
(* so far, in order                                                          *)
DefaultBranch == <<"g", "h", "-", "p", "a", "g", "e", "s">>
DefaultIndexTitle == <<"G", "e", "n", "e", "r", "a", "t", "e", "d", " ",
                       "D", "o", "c", "u", "m", "e", "n", "t", "s">>

parsePublishOptions(publish, publishMethod, pagesBranch, generateIndex, indexTitle) ==
  [enabled |-> publish,
   method |-> IF publishMethod = "branch" THEN "branch" ELSE "pages-api",
   branch |-> IF pagesBranch = << >> THEN DefaultBranch ELSE pagesBranch,
   generateIndex |-> generateIndex,
   indexTitle |-> IF indexTitle = << >> THEN DefaultIndexTitle ELSE indexTitle]

PublishMethods == {"branch", "pages-api", "other"}
BranchInputs == {<< >>, <<"d", "o", "c", "s">>}
TitleInputs == {<< >>, <<"D", "o", "c", "s">>}

PublishOptionSets ==
  {parsePublishOptions(e, m, b, g, t) :
     e \in BOOLEAN, m \in PublishMethods, b \in BranchInputs,
     g \in BOOLEAN, t \in TitleInputs}

IndexPath == <<"i", "n", "d", "e", "x", ".", "h", "t", "m", "l">>

PublishInit ==
  /\ pub \in {[pc |-> "start", options |-> o, files |-> n, indexFile |-> None,
               result |-> None, calls |-> << >>] :
                o \in PublishOptionSets, n \in 0..MaxFiles}
  /\ util = NoCall
  /\ TocIdle

(* variant: the enabled flag is not consulted *)
Disabled_Never(options) == FALSE

(* !options.enabled *)
Disabled(options) == ~options.enabled

(* lines 29-31 *)
PublishCheckEnabled ==
  /\ pub.pc = "start"
  /\ pub' = IF Disabled(pub.options)
            THEN [pub EXCEPT !.pc = "done",
                             !.result = Some([success |-> TRUE, indexFile |-> None])]
            ELSE [pub EXCEPT !.pc = "index"]
  /\ UNCHANGED <<tocVars, util>>

(* variant: a failure of the index generation ends publish *)
NextAfterIndex_Rethrow(outcome) == IF outcome = "throw" THEN "thrown" ELSE "method"

(* lines 49-52: the catch block only logs a warning; control reaches line 56 *)
NextAfterIndex(outcome) == "method"

(* lines 37-53: generateIndexPage returns a path, or it (or                  *)
(* createGeneratedFiles) throws and the catch block logs a warning           *)
PublishIndex ==
  /\ pub.pc = "index"
  /\ IF pub.options.generateIndex /\ pub.files > 0
     THEN \E outcome \in {"path", "throw"} :
            pub' = [pub EXCEPT
                      !.pc = NextAfterIndex(outcome),
                      !.calls = Append(@, [fn |-> "generateIndexPage",
                                           arg |-> pub.options.indexTitle,
                                           outcome |-> outcome]),
                      !.indexFile = IF outcome = "path" THEN Some(IndexPath) ELSE None]
     ELSE pub' = [pub EXCEPT !.pc = "method"]
  /\ UNCHANGED <<tocVars, util>>

(* lines 56-68: the publishing method returns its result or throws; a throw  *)
(* is not caught inside publish                                              *)
PublishMethod ==
  /\ pub.pc = "method"
  /\ LET fn == IF pub.options.method = "branch"
               THEN "publishToBranch" ELSE "prepareForPagesApi"
         arg == IF pub.options.method = "branch" THEN pub.options.branch ELSE << >>
     IN \E outcome \in {"ok", "failed", "throw"} :
          pub' = [pub EXCEPT
                    !.calls = Append(@, [fn |-> fn, arg |-> arg,
                                         outcome |-> outcome]),
                    !.pc = IF outcome = "throw" THEN "thrown" ELSE "attach",
                    !.result = IF outcome = "throw" THEN None
                               ELSE Some([success |-> outcome = "ok",
                                          indexFile |-> None])]
  /\ UNCHANGED <<tocVars, util>>

(* lines 70-75 *)
PublishReturn ==
  /\ pub.pc = "attach"
  /\ pub' = [pub EXCEPT
               !.pc = "done",
               !.result = IF pub.indexFile # None
                          THEN Some([pub.result[1] EXCEPT !.indexFile = pub.indexFile])
                          ELSE pub.result]
  /\ UNCHANGED <<tocVars, util>>

PublishNext ==
  \/ PublishCheckEnabled
  \/ PublishIndex
  \/ PublishMethod
  \/ PublishReturn

SpecPublish == PublishInit /\ [][PublishNext]_vars

(* C20: publish with options.enabled = false returns {success: true}        *)
(* without generating an index page and without invoking a publishing        *)
(* method, whatever the other options and the generated files are.           *)
C20_DisabledNoOp ==
  ~pub.options.enabled =>
    /\ pub.calls = << >>
    /\ pub.pc \in {"start", "done"}
    /\ pub.pc = "done" =>
         pub.result = Some([success |-> TRUE, indexFile |-> None])

C20_Witness ==
  /\ pub.pc = "done"
  /\ ~pub.options.enabled
  /\ pub.options.generateIndex
  /\ pub.options.method = "branch"
  /\ pub.files = MaxFiles
  /\ pub.calls = << >>
  /\ pub.result = Some([success |-> TRUE, indexFile |-> None])

(* ================= rendering: documents of in-range headings ============= *)
RenderHeadings == {Heading(1, TextA), Heading(2, TextB)}

RenderConfigs ==
  {Some(BlankToc),
   Some([BlankToc EXCEPT !.numbered = Some(TRUE)]),
   Some([BlankToc EXCEPT !.showPageNumbers = Some(FALSE)])}

(* entriesPerPage -1, 0, 1 and 2 with the margins of MarginSets *)
RenderHeights == PageHeights \cup {90}

(* too narrow for the page number, a padded gap of exactly one glyph, room  *)
(* for two glyphs after a short entry only, room for many                   *)
RenderWidths == {40, 60, 70, 120}

RenderInit ==
  /\ tocConfig \in RenderConfigs
  /\ content \in {Some(c) : c \in SeqsUpTo(RenderHeadings, MaxRenderEntries)}
  /\ hasCoverPage \in BOOLEAN
  /\ drawnElements = DrawnInOrder(content[1], hasCoverPage)
  /\ before = [drawnElements |-> drawnElements, content |-> content]
  /\ pageHeight \in RenderHeights
  /\ pageWidth \in RenderWidths
  /\ margins \in MarginSets
  /\ docPages = SectionPages(hasCoverPage, Len(content[1]))
  /\ ctxPages = SectionPages(hasCoverPage, Len(content[1]))
  /\ pc = "start"
  /\ config = None
  /\ entries = << >>
  /\ entryIdx = 0
  /\ headingIdx = 0
  /\ matched = << >>
  /\ entriesPerPage = 0
  /\ tocPageCount = [inf |-> FALSE, n |-> 0]
  /\ insertIndex = 0
  /\ i = 0
  /\ pageIdx = 0
  /\ drawLog = << >>
  /\ ret = None
  /\ util = NoCall
  /\ pub = NoCall

SpecRender == RenderInit /\ [][Next]_vars

DrawsOf(kind) == SelectSeq(drawLog, LAMBDA d : d.kind = kind)

(* C21: when entriesPerPage >= 1, renderTocContent draws each entry exactly *)
(* once: entry i (0-based) on inserted TOC page floor(i / entriesPerPage),   *)
(* in entry order down the page, at most entriesPerPage entries per page.    *)
C21_Chunks ==
  (Finished /\ ret # Some(0) /\ entriesPerPage >= 1) =>
    LET ds == DrawsOf("entry")
    IN /\ Len(ds) = Len(entries)
       /\ \A k \in 1..Len(ds) :
            /\ ds[k].entry = k
            /\ ds[k].page = NewTocPage((k - 1) \div entriesPerPage)
            /\ ds[k].page = ctxPages[insertIndex + ((k - 1) \div entriesPerPage) + 1]
       /\ \A k \in 1..(Len(ds) - 1) :
            ds[k].page = ds[k + 1].page => ds[k + 1].y < ds[k].y
       /\ \A q \in 0..(tocPageCount.n - 1) :
            Cardinality({k \in 1..Len(ds) : ds[k].page = NewTocPage(q)}) <= entriesPerPage

C21_Witness ==
  /\ Finished
  /\ entriesPerPage = 2
  /\ Len(entries) = 3
  /\ ret = Some(2)
  /\ \E k \in 1..Len(drawLog) :
       /\ drawLog[k].kind = "entry"
       /\ drawLog[k].entry = 3
       /\ drawLog[k].page = NewTocPage(1)

(* index in drawLog of the first drawText call on TOC page q, 0 if none *)
FirstDrawOn(q) ==
  IF \E k \in 1..Len(drawLog) : drawLog[k].page = NewTocPage(q)
  THEN CHOOSE k \in 1..Len(drawLog) :
         /\ drawLog[k].page = NewTocPage(q)
         /\ \A j \in 1..(k - 1) : drawLog[j].page # NewTocPage(q)
  ELSE 0

TopOfPage == pageHeight - margins.top

(* C22: across the inserted TOC pages the title is drawn exactly once, on   *)
(* the first TOC page and before (and above) every entry of that page; on a  *)
(* continuation page the first entry starts at the top margin and there is   *)
(* no title.                                                                 *)
C22_TitleOnce ==
  /\ (pc = "render" /\ pageIdx = 0) => drawLog = << >>
  /\ (pc \in {"render", "done"} /\ pageIdx >= 1) =>
       /\ Len(DrawsOf("title")) = 1
       /\ drawLog[1].kind = "title"
       /\ drawLog[1].page = NewTocPage(0)
       /\ drawLog[1].text = config[1].title
       /\ drawLog[1].y = TopOfPage
       /\ \A k \in 2..Len(drawLog) :
            drawLog[k].page = NewTocPage(0) => drawLog[k].y < drawLog[1].y
       /\ \A q \in 1..(pageIdx - 1) :
            FirstDrawOn(q) # 0 =>
              /\ drawLog[FirstDrawOn(q)].kind = "entry"
              /\ drawLog[FirstDrawOn(q)].y = TopOfPage

C22_Witness ==
  /\ Finished
  /\ ret = Some(2)
  /\ Len(DrawsOf("title")) = 1
  /\ FirstDrawOn(1) # 0
  /\ drawLog[FirstDrawOn(1)].kind = "entry"
  /\ drawLog[FirstDrawOn(1)].y = TopOfPage
  /\ drawLog[2].kind = "entry"
  /\ drawLog[2].y = TopOfPage - (TOC_TITLE_FONT_SIZE + TOC_TITLE_MARGIN_BOTTOM)

(* the drawText calls of one kind made for entry idx *)
DrawsFor(kind, idx) == SelectSeq(drawLog, LAMBDA d : d.kind = kind /\ d.entry = idx)

DrawnEntries == {drawLog[k].entry : k \in {j \in 1..Len(drawLog) : drawLog[j].kind = "entry"}}

(* C23: for every entry drawn with showPageNumbers true the page number is  *)
(* right-aligned, every leader glyph lies entirely between the end of the    *)
(* entry text and the start of the page-number text, successive glyphs are   *)
(* the fixed spacing apart, and no glyph is drawn when the gap cannot hold   *)
(* one; with showPageNumbers false neither page number nor leader is drawn.  *)
C23_Leaders ==
  \A idx \in DrawnEntries :
    LET e == DrawsFor("entry", idx)[1]
        nums == DrawsFor("pageNum", idx)
        dots == DrawsFor("dot", idx)
    IN IF config[1].showPageNumbers
       THEN /\ Len(nums) = 1
            /\ nums[1].y = e.y
            /\ nums[1].x + nums[1].width = pageWidth - margins.right
            /\ \A k \in 1..Len(dots) :
                 /\ dots[k].y = e.y
                 /\ dots[k].text = <<".">>
                 /\ e.x + e.width < dots[k].x
                 /\ dots[k].x + dots[k].width < nums[1].x
            /\ \A k \in 1..(Len(dots) - 1) :
                 dots[k + 1].x = dots[k].x + dots[k].width + 3
            /\ nums[1].x - (e.x + e.width) < NarrowGlyph => dots = << >>
            /\ (nums[1].x - 8) - (e.x + e.width + 8) < NarrowGlyph => dots = << >>
       ELSE nums = << >> /\ dots = << >>

(* an entry with several glyphs, one with a positive gap too small for a    *)
(* glyph                                                                     *)
C23_Witness ==
  /\ Finished
  /\ config[1].showPageNumbers
  /\ \E idx \in DrawnEntries : Len(DrawsFor("dot", idx)) >= 2
  /\ \E idx \in DrawnEntries :
       /\ DrawsFor("dot", idx) = << >>
       /\ DrawsFor("pageNum", idx)[1].x > DrawsFor("entry", idx)[1].x
                                          + DrawsFor("entry", idx)[1].width

(* ----- termination of the insertion loop ----- *)
(* C24: for every finite, non-negative page height and margins and every    *)
(* non-empty entry list insertTocPages terminates after inserting a finite   *)
(* number of pages, also when entriesPerPage is 0 or negative: the insertion *)
(* loop has a finite bound and never passes it.                              *)
C24_FiniteInsertion ==
  pc = "insert" =>
    /\ ~tocPageCount.inf
    /\ i <= tocPageCount.n
    /\ i <= Max(1, Len(entries))

(* ----- the matcher on records that agree with the entries ----- *)
HeadingTexts == [k \in 1..Len(headingElements) |-> headingElements[k].content]
EntryTexts == [k \in 1..Len(entries) |-> entries[k].text]

CoverOffset == IF hasCoverPage THEN 1 ELSE 0

(* C25: if the texts of the heading-or-title drawn elements, in record      *)
(* order, are the texts of the TOC entries, in entry order, every entry i    *)
(* is matched to the i-th such element and gets its page (minus 1 with a     *)
(* cover page), also when several headings share a text.                     *)
C25_InOrderMatch ==
  (entries # << >> /\ HeadingTexts = EntryTexts) =>
    \A j \in 1..Len(matched) :
      /\ matched[j] = j
      /\ entries[j].pageNumber = Some(headingElements[j].page - CoverOffset)

C25_Witness ==
  /\ Len(matched) = 2
  /\ Len(entries) = 2
  /\ HeadingTexts = EntryTexts
  /\ entries[1].text = entries[2].text
  /\ matched = <<1, 2>>
  /\ headingElements[1].page = 2 /\ headingElements[2].page = 1
  /\ entries[1].pageNumber = Some(1) /\ entries[2].pageNumber = Some(0)

(* C26: if the pages of the heading-or-title drawn elements are             *)
(* non-decreasing in record order and every entry finds a match, the page    *)
(* numbers given to the entries are non-decreasing in entry order.           *)
C26_PagesMonotone ==
  (/\ \A a, b \in 1..Len(headingElements) :
        a < b => headingElements[a].page <= headingElements[b].page
   /\ \A j \in 1..Len(matched) : matched[j] # 0) =>
    \A j, k \in 1..Len(matched) :
      j < k => entries[j].pageNumber[1] <= entries[k].pageNumber[1]

C26_Witness ==
  /\ Finished
  /\ Len(matched) = 2
  /\ matched = <<1, 2>>
  /\ headingElements[1].page < headingElements[2].page
  /\ entries[1].pageNumber[1] < entries[2].pageNumber[1]


(* ----- numbering order and components (SpecUtil) ----- *)
(* a precedes b in lexicographic order; a proper prefix precedes its extensions *)
LexLess(a, b) ==
  \E n \in 1..(Min(Len(a), Len(b)) + 1) :
    /\ \A m \in 1..(n - 1) : a[m] = b[m]
    /\ \/ n > Len(a) /\ n <= Len(b)
       \/ n <= Len(a) /\ n <= Len(b) /\ a[n] < b[n]

(* C27: after assignNumbering the numbering strings are pairwise distinct   *)
(* and, read as tuples of integers, strictly increasing in lexicographic    *)
(* order along the entry sequence.                                          *)
C27_StrictlyIncreasing ==
  Done("assignNumbering") =>
    LET es == util.res
    IN \A j, k \in 1..Len(es) :
         j < k => /\ es[j].numbering # es[k].numbering
                  /\ LexLess(PartsOf(es, j), PartsOf(es, k))

C27_Witness ==
  /\ Done("assignNumbering")
  /\ Levels(util.res) = <<2, 1, 3, 2, 2>>
  /\ [k \in 1..5 |-> PartsOf(util.res, k)] =
       << <<0, 1>>, <<1>>, <<1, 0, 1>>, <<1, 1>>, <<1, 2>> >>

(* C28 as stated: every entry's numbering has exactly (level - minimum      *)
(* level present + 1) dot-separated components and every component is an    *)
(* integer >= 1, also when a deeper heading precedes the first shallower    *)
(* one or a heading level is skipped.                                       *)
C28_NoZeroComponent ==
  Done("assignNumbering") =>
    LET es == util.res
    IN \A k \in 1..Len(es) :
         /\ Len(PartsOf(es, k)) = DepthOf(es, k) + 1
         /\ \A d \in 1..Len(PartsOf(es, k)) : PartsOf(es, k)[d] >= 1

(* an entry at depth d lies at or before entry k with nothing shallower after it *)
OpenAt(es, k, d) ==
  \E j \in 1..k :
    /\ DepthOf(es, j) = d
    /\ \A m \in (j + 1)..k : DepthOf(es, m) >= d

(* C28 amended: every entry's numbering has exactly (level - minimum level  *)
(* present + 1) components, each an integer >= 0 and the last >= 1; a       *)
(* component is 0 exactly at a depth at which no entry has appeared since   *)
(* the last shallower entry: level 1 followed directly by level 3 gives     *)
(* 1.0.1, and a level-2 entry before the first level-1 entry gives 0.1.     *)
C28_Components ==
  Done("assignNumbering") =>
    LET es == util.res
    IN /\ \A k \in 1..Len(es) :
            LET parts == PartsOf(es, k)
            IN /\ Len(parts) = DepthOf(es, k) + 1
               /\ parts[Len(parts)] >= 1
               /\ \A d \in 1..Len(parts) :
                    /\ parts[d] >= 0
                    /\ parts[d] = 0 <=> ~OpenAt(es, k, d - 1)
       /\ Levels(es) = <<1, 3>> =>
            Numberings(es) = << <<"1">>, <<"1", ".", "0", ".", "1">> >>
       /\ Levels(es) = <<2, 1>> =>
            Numberings(es) = << <<"0", ".", "1">>, <<"1">> >>

C28_Witness ==
  /\ Done("assignNumbering")
  /\ Levels(util.res) = <<1, 3, 2, 3>>
  /\ [k \in 1..4 |-> PartsOf(util.res, k)] =
       << <<1>>, <<1, 0, 1>>, <<1, 1>>, <<1, 1, 1>> >>

(* ----- publish with enabled = true (SpecPublish) ----- *)
IndexCalls == {k \in 1..Len(pub.calls) : pub.calls[k].fn = "generateIndexPage"}
MethodCalls == {k \in 1..Len(pub.calls) : pub.calls[k].fn # "generateIndexPage"}
IndexThrew == \E k \in IndexCalls : pub.calls[k].outcome = "throw"

(* C29: in publish with options.enabled = true, index generation is         *)
(* attempted only when generateIndex is true and the file list is non-empty, *)
(* and only before the publishing method runs; if it throws, the error is    *)
(* not propagated, the selected publishing method (branch when method is     *)
(* 'branch', otherwise pages-api) is still invoked exactly once, and the     *)
(* returned result carries no indexFile.                                     *)
C29_IndexBestEffort ==
  pub.options.enabled =>
    /\ IndexCalls # {} => pub.options.generateIndex /\ pub.files > 0
    /\ \A k \in IndexCalls : \A m \in MethodCalls : k < m
    /\ IndexThrew =>
         /\ pub.pc \in {"method", "attach", "done", "thrown"}
         /\ \A m \in MethodCalls :
              pub.calls[m].fn = IF pub.options.method = "branch"
                                THEN "publishToBranch" ELSE "prepareForPagesApi"
         /\ Cardinality(MethodCalls) = IF pub.pc = "method" THEN 0 ELSE 1
         /\ pub.pc = "thrown" =>
              pub.calls[Len(pub.calls)].fn # "generateIndexPage"
         /\ pub.pc = "done" =>
              /\ pub.result # None
              /\ pub.result[1].indexFile = None

C29_Witness ==
  /\ pub.options.enabled
  /\ pub.pc = "done"
  /\ Len(pub.calls) = 2
  /\ pub.calls[1].fn = "generateIndexPage"
  /\ pub.calls[1].outcome = "throw"
  /\ pub.calls[2].fn = "publishToBranch"
  /\ pub.result # None
  /\ pub.result[1].indexFile = None
====
